---------------------------- MODULE Spec2Model ----------------------------
(***************************************************************************)
(* A model of single_page_crawl.py: URL normalisation, link extraction    *)
(* with the static (requests + BeautifulSoup) and dynamic (Playwright)    *)
(* crawlers, the Streamlit run handler that selects between them, and the *)
(* aggregation done by process_results.                                   *)
(*                                                                         *)
(* Python strings are sequences of one-character strings, so that rstrip, *)
(* split, replace, the "in" substring test and lexical order are computed *)
(* character by character as the interpreter computes them.               *)
(***************************************************************************)
EXTENDS Integers, Sequences, FiniteSets, TLC

VARIABLES
    \* ---- normalize_url called on its own (SpecNormalize)
    url,            \* the argument of normalize_url
    cls,            \* the class whose method is called
    out1,           \* normalize_url(url)
    out2,           \* normalize_url(normalize_url(url))
    npc,            \* "start" | "once" | "twice"
    \* ---- process_results called on its own (SpecAggregate)
    batch,          \* results[source_url]: the records of one source
    producer,       \* the crawler that produced the batch
    limit,          \* the limit argument
    table,          \* the DataFrame returned, as a sequence of rows
    apc,            \* "start" | "done"
    \* ---- the crawlers and the Streamlit script (SpecCrawl, SpecRun)
    PLAYWRIGHT_AVAILABLE,
    probe,          \* what the probe of this script run met
    pc,             \* the statement the script or the crawl is at
    url_input,      \* the sidebar's text input
    result_limit,   \* the sidebar's number input
    caller,         \* who called crawl_multiple_sources
    crawler,        \* the class of the crawler object in use
    source_urls,    \* the argument of crawl_multiple_sources
    idx,            \* the place of its for loop in source_urls
    all_results,    \* its dictionary: source URL -> list of records
    load_failed,    \* the sources whose page load failed
    playwright,     \* the Playwright driver: "none" | "started" | "stopped"
    browser,        \* the browser process: "none" | "open" | "closed"
    context,        \* the browsing context: "none" | "open" | "closed"
    open_pages,     \* pages of the context opened and not closed
    exc,            \* the exception in flight
    df,             \* the handler's DataFrame
    error,          \* st.error was shown
    aenter_failed,  \* LinkCrawler.__aenter__ raised in this run
    calls           \* invocations in this script run, by callee

normVars == <<url, cls, out1, out2, npc>>
aggVars == <<batch, producer, limit, table, apc>>
runVars == <<PLAYWRIGHT_AVAILABLE, probe, pc, url_input, result_limit, caller, crawler,
            source_urls, idx, all_results, load_failed, playwright, browser, context,
            open_pages, exc, df, error, aenter_failed, calls>>
vars == <<normVars, aggVars, runVars>>

\* the variables a specification leaves alone
notNorm == <<aggVars, runVars>>
notAgg == <<normVars, runVars>>
notRun == <<normVars, aggVars>>

NormIdle == url = <<>> /\ cls = "SimpleHTTPCrawler" /\ out1 = <<>> /\ out2 = <<>> /\ npc = "idle"
NoProbe == [done |-> FALSE, import_ok |-> FALSE, timed_out |-> FALSE,
            returncode |-> 0, chromium_listed |-> FALSE]
NoCalls == [probe |-> 0, select |-> 0, main_http |-> 0, main_playwright |-> 0,
            LinkCrawler |-> 0]
RunIdle ==
    /\ PLAYWRIGHT_AVAILABLE = FALSE /\ probe = NoProbe /\ pc = "idle"
    /\ url_input = <<>> /\ result_limit = 1 /\ caller = "none" /\ crawler = "none"
    /\ source_urls = <<>> /\ idx = 1 /\ all_results = <<>> /\ load_failed = {}
    /\ playwright = "none" /\ browser = "none" /\ context = "none" /\ open_pages = 0
    /\ exc = "none" /\ df = <<>> /\ error = FALSE /\ aenter_failed = FALSE
    /\ calls = NoCalls
AggIdle == batch = <<>> /\ producer = "static" /\ limit = 1 /\ table = <<>> /\ apc = "idle"

(***************************************************************************)
(* Bounds of the model.                                                    *)
(***************************************************************************)
MaxLen == 5
MaxRecords == 3
MaxLimit == 2
MaxLinks == 2
MaxSources == 2

(***************************************************************************)
(* Python str operations.                                                  *)
(***************************************************************************)
Empty == <<>>

\* s[i:] for a 1-based i
Drop(s, i) == SubSeq(s, i, Len(s))

\* s[:n]
Take(s, n) == SubSeq(s, 1, n)

\* s.startswith(p)
StartsWith(s, p) == Len(p) <= Len(s) /\ Take(s, Len(p)) = p

\* s.find(sub) + 1: the 1-based place of the first occurrence, 0 when absent
Find(s, sub) ==
    LET hits == {i \in 1..(Len(s) - Len(sub) + 1) : SubSeq(s, i, i + Len(sub) - 1) = sub}
    IN  IF hits = {} THEN 0 ELSE CHOOSE i \in hits : \A j \in hits : i <= j

\* s[:i - 1], all of s when i is 0
Before(s, i) == IF i = 0 THEN s ELSE SubSeq(s, 1, i - 1)

\* sub in s
Contains(sub, s) == Find(s, sub) # 0

\* s.rstrip(c): every trailing c is removed
RECURSIVE Rstrip(_, _)
Rstrip(s, c) ==
    IF s # Empty /\ s[Len(s)] = c THEN Rstrip(Take(s, Len(s) - 1), c) ELSE s

\* s.split(c)[0]: the part before the first c, all of s when c is absent
SplitFirst(s, c) == Before(s, Find(s, <<c>>))

\* s.replace(old, ""): every non-overlapping occurrence removed, left to right
RECURSIVE Remove(_, _)
RemoveAt(s, old, i) ==
    IF i = 0 THEN s
    ELSE SubSeq(s, 1, i - 1) \o Remove(SubSeq(s, i + Len(old), Len(s)), old)

Remove(s, old) == RemoveAt(s, old, Find(s, old))

Whitespace == {" "}

\* s.strip()
RECURSIVE Lstrip(_)
Lstrip(s) == IF s # Empty /\ s[1] \in Whitespace THEN Lstrip(Drop(s, 2)) ELSE s

RECURSIVE RstripWs(_)
RstripWs(s) ==
    IF s # Empty /\ s[Len(s)] \in Whitespace THEN RstripWs(Take(s, Len(s) - 1)) ELSE s

Strip(s) == RstripWs(Lstrip(s))

\* the sequences over S of length at most n
RECURSIVE SeqsUpTo(_, _)
SeqsUpTo(S, n) ==
    IF n = 0 THEN {<<>>}
    ELSE LET shorter == SeqsUpTo(S, n - 1)
         IN  shorter \cup {Append(q, x) : q \in shorter, x \in S}

(***************************************************************************)
(* normalize_url, as both classes define it.  "if not url" is true of the  *)
(* empty string and of None; both give "", and None is not modelled apart. *)
(***************************************************************************)
normalize_url(u) ==
    IF u = Empty THEN Empty
    ELSE SplitFirst(SplitFirst(Rstrip(u, "/"), "#"), "?")

LinkCrawler_normalize_url(u) ==
    IF u = Empty THEN Empty
    ELSE SplitFirst(SplitFirst(Rstrip(u, "/"), "#"), "?")

NormalizeOf(c, u) ==
    IF c = "SimpleHTTPCrawler" THEN normalize_url(u) ELSE LinkCrawler_normalize_url(u)

(***************************************************************************)
(* SpecNormalize: normalize_url applied once and then to its own result.  *)
(***************************************************************************)
UrlChars == {"a", "/", "#", "?"}

ExampleUrl == <<"h", "t", "t", "p", "s", ":", "/", "/", "a", ".", "c", "o", "m", "/", "x", "/", "?", "q", "=", "1", "#", "f">>
ExampleNormalized == <<"h", "t", "t", "p", "s", ":", "/", "/", "a", ".", "c", "o", "m", "/", "x">>

NormInit ==
    /\ url \in SeqsUpTo(UrlChars, MaxLen) \cup {ExampleUrl}
    /\ cls \in {"SimpleHTTPCrawler", "LinkCrawler"}
    /\ out1 = Empty
    /\ out2 = Empty
    /\ npc = "start"
    /\ AggIdle
    /\ RunIdle

Normalize ==
    /\ npc = "start"
    /\ out1' = NormalizeOf(cls, url)
    /\ npc' = "once"
    /\ UNCHANGED <<url, cls, out2, notNorm>>

NormalizeAgain ==
    /\ npc = "once"
    /\ out2' = NormalizeOf(cls, out1)
    /\ npc' = "twice"
    /\ UNCHANGED <<url, cls, out1, notNorm>>

NormNext == Normalize \/ NormalizeAgain

SpecNormalize == NormInit /\ [][NormNext]_vars

\* The reference result of the normaliser: the part before the first "#", then
\* the part of that before the first "?", then one trailing "/" removed.
ReferenceNormalize(u) ==
    LET cut == SplitFirst(SplitFirst(u, "#"), "?")
    IN  IF cut # Empty /\ cut[Len(cut)] = "/" THEN Take(cut, Len(cut) - 1) ELSE cut

\* C1: normalize_url is idempotent: normalising a normalised URL changes
\* nothing, for both classes and every input string.
C1_Idempotent == npc = "twice" => out2 = out1

\* C2: normalize_url(u) is the reference result for every u, and in
\* particular "https://a.com/x/?q=1#f" normalises to "https://a.com/x".
C2_MatchesReference ==
    npc # "start" =>
        /\ out1 = ReferenceNormalize(url)
        /\ (url = ExampleUrl => out1 = ExampleNormalized)

(***************************************************************************)
(* urllib.parse: urlparse and urljoin, for URLs without ";" parameters and *)
(* without "." or ".." path segments.                                      *)
(***************************************************************************)
Letters == {"A", "B", "H", "N", "a", "b", "c", "d", "e", "f", "g", "h", "i", "l", "m",
            "n", "o", "p", "q", "r", "s", "t", "u", "v", "w", "x", "y"}
SchemeChars == Letters \cup {"1", "-", "."}

\* the least member of a set of numbers, none when the set is empty
Least(hits, none) ==
    IF hits = {} THEN none ELSE CHOOSE i \in hits : \A j \in hits : i <= j

\* the place of the first of the characters of cs in s at or after start,
\* Len(s) + 1 when there is none
FirstOf(s, cs, start) == Least({i \in start..Len(s) : s[i] \in cs}, Len(s) + 1)

\* the place of the ":" that ends the scheme of u, 0 when u has no scheme
SchemeEndAt(u, colon) ==
    IF /\ colon > 1
       /\ u[1] \in Letters
       /\ \A i \in 1..(colon - 1) : u[i] \in SchemeChars
    THEN colon ELSE 0

SchemeEnd(u) == SchemeEndAt(u, Find(u, <<":">>))

\* url.split("?", 1) of what is left of the URL
SplitQueryAt(scheme, netloc, rest, fragment, qm) ==
    [scheme |-> scheme, netloc |-> netloc,
     path |-> IF qm = 0 THEN rest ELSE Take(rest, qm - 1),
     query |-> IF qm = 0 THEN Empty ELSE Drop(rest, qm + 1),
     fragment |-> fragment]

SplitQuery(scheme, netloc, rest, fragment) ==
    SplitQueryAt(scheme, netloc, rest, fragment, Find(rest, <<"?">>))

\* url.split("#", 1)
SplitFragmentAt(scheme, netloc, rest, hash) ==
    IF hash = 0 THEN SplitQuery(scheme, netloc, rest, Empty)
    ELSE SplitQuery(scheme, netloc, Take(rest, hash - 1), Drop(rest, hash + 1))

SplitFragment(scheme, netloc, rest) ==
    SplitFragmentAt(scheme, netloc, rest, Find(rest, <<"#">>))

\* _splitnetloc(url, 2) when url[:2] == "//"
SplitNetlocAt(scheme, rest, delim) ==
    SplitFragment(scheme, SubSeq(rest, 3, delim - 1), Drop(rest, delim))

SplitNetloc(scheme, rest) ==
    IF StartsWith(rest, <<"/", "/">>)
    THEN SplitNetlocAt(scheme, rest, FirstOf(rest, {"/", "?", "#"}, 3))
    ELSE SplitFragment(scheme, Empty, rest)

UrlSplitAt(u, default, colon) ==
    IF colon = 0 THEN SplitNetloc(default, u)
    ELSE SplitNetloc(Take(u, colon - 1), Drop(u, colon + 1))

\* urlsplit(u, scheme=default): scheme, netloc, path, query, fragment
UrlSplit(u, default) == UrlSplitAt(u, default, SchemeEnd(u))

urlparse(u) == UrlSplit(u, Empty)

\* urlunsplit, for the schemes that take a network location
WithFragment(s, fragment) == IF fragment # Empty THEN s \o <<"#">> \o fragment ELSE s

WithQuery(s, query) == IF query # Empty THEN s \o <<"?">> \o query ELSE s

WithScheme(s, scheme) == IF scheme # Empty THEN scheme \o <<":">> \o s ELSE s

WithNetloc(path, scheme, netloc) ==
    IF netloc # Empty \/ (scheme # Empty /\ ~StartsWith(path, <<"/", "/">>))
    THEN <<"/", "/">> \o netloc \o path ELSE path

RootedPath(path, netloc) ==
    IF netloc # Empty /\ path # Empty /\ path[1] # "/" THEN <<"/">> \o path ELSE path

UrlUnsplit(p) ==
    WithFragment(
        WithQuery(
            WithScheme(WithNetloc(RootedPath(p.path, p.netloc), p.scheme, p.netloc),
                       p.scheme),
            p.query),
        p.fragment)

UsesRelative == {<<"h", "t", "t", "p">>, <<"h", "t", "t", "p", "s">>, Empty}

\* the last "@" of s, 0 when there is none
LastAt(s) ==
    LET hits == {i \in DOMAIN s : s[i] = "@"}
    IN  IF hits = {} THEN 0 ELSE CHOOSE i \in hits : \A j \in hits : i >= j

\* the last "/" of s, 0 when there is none
LastSlash(s) ==
    LET hits == {i \in DOMAIN s : s[i] = "/"}
    IN  IF hits = {} THEN 0 ELSE CHOOSE i \in hits : \A j \in hits : i >= j

\* the reference r resolved against the parsed base b
ResolvedParts(b, r) ==
    IF r.path = Empty
    THEN [r EXCEPT !.netloc = b.netloc, !.path = b.path,
                   !.query = IF r.query = Empty THEN b.query ELSE r.query]
    ELSE IF r.path[1] = "/"
    THEN [r EXCEPT !.netloc = b.netloc]
    ELSE [r EXCEPT !.netloc = b.netloc,
                   !.path = Take(b.path, LastSlash(b.path)) \o r.path]

JoinParts(b, r, u) ==
    IF r.scheme # b.scheme \/ r.scheme \notin UsesRelative THEN u
    ELSE IF r.netloc # Empty THEN UrlUnsplit(r)
    ELSE UrlUnsplit(ResolvedParts(b, r))

JoinParsed(b, u) == JoinParts(b, UrlSplit(u, b.scheme), u)

urljoin(base, u) ==
    IF base = Empty THEN u
    ELSE IF u = Empty THEN base
    ELSE JoinParsed(urlparse(base), u)

(***************************************************************************)
(* Lexical order of Python strings (by code point).                        *)
(***************************************************************************)
CodePoints == <<" ", "#", "-", ".", "/", "1", ":", "=", "?", "@", "A", "B", "H", "N", "[", "]", "a", "b", "c", "d", "e", "f", "g", "h", "i", "l", "m", "n", "o", "p", "q", "r", "s", "t", "u", "v", "w", "x", "y">>

Ord(c) == CHOOSE i \in DOMAIN CodePoints : CodePoints[i] = c

RECURSIVE StrLess(_, _)
StrLess(s, t) ==
    IF t = Empty THEN FALSE
    ELSE IF s = Empty THEN TRUE
    ELSE IF s[1] = t[1] THEN StrLess(Tail(s), Tail(t))
    ELSE Ord(s[1]) < Ord(t[1])

StrLeq(s, t) == s = t \/ StrLess(s, t)

(***************************************************************************)
(* process_results.                                                        *)
(***************************************************************************)
NoText == <<"[", "N", "o", " ", "t", "e", "x", "t", "]">>

Min(a, b) == IF a <= b THEN a ELSE b

\* df[df["anchor_text"].str.strip() != ""]
FilterEmpty(list) == SelectSeq(list, LAMBDA r : Strip(r.anchor_text) # Empty)

\* df[df["anchor_text"] != "[No text]"]
FilterNoText(list) == SelectSeq(list, LAMBDA r : r.anchor_text # NoText)

KeyOf(r) == <<r.init_url, r.anchor_text, r.href>>

KeyLess(k, l) ==
    \/ StrLess(k[1], l[1])
    \/ k[1] = l[1] /\ StrLess(k[2], l[2])
    \/ k[1] = l[1] /\ k[2] = l[2] /\ StrLess(k[3], l[3])

Permutations_(S) ==
    {f \in [1..Cardinality(S) -> S] : \A i, j \in DOMAIN f : i # j => f[i] # f[j]}

\* df.groupby(["init_url", "anchor_text", "href"]).size().reset_index(name="count"):
\* one row per key, the rows in ascending order of the key
GroupBySize(list) ==
    LET keys == {KeyOf(list[i]) : i \in DOMAIN list}
        count(k) == Cardinality({i \in DOMAIN list : KeyOf(list[i]) = k})
        order == CHOOSE f \in Permutations_(keys) :
                    \A i, j \in DOMAIN f : i < j => KeyLess(f[i], f[j])
    IN  [i \in DOMAIN order |->
            [init_url |-> order[i][1], anchor_text |-> order[i][2],
             href |-> order[i][3], count |-> count(order[i])]]

\* .sort_values(by="count", ascending=False): the default kind, quicksort, is
\* not stable, so rows of equal count come out in any order (the order of
\* GroupBySize among them is one of the outcomes)
SortValues(rows) ==
    {f \in Permutations_({rows[i] : i \in DOMAIN rows}) :
        \A i, j \in DOMAIN f : i < j => f[i].count >= f[j].count}

\* .head(limit)
Head_(rows, n) == SubSeq(rows, 1, Min(n, Len(rows)))

\* the DataFrames process_results can return for results[source_url] = list
process_results(list, lim) ==
    IF list = <<>> THEN {<<>>}
    ELSE {Head_(sorted, lim) : sorted \in SortValues(GroupBySize(FilterNoText(FilterEmpty(list))))}

(***************************************************************************)
(* The pages a crawl can meet.  An element carrying an href attribute is   *)
(* its tag, its href, its inner text, its title attribute, whether it is   *)
(* rendered visible, and whether reading it from the live DOM raises (the  *)
(* element went stale).                                                    *)
(***************************************************************************)
SiteA == <<"h", "t", "t", "p", "s", ":", "/", "/", "a", ".", "c", "o", "m">>
SiteWwwA == <<"h", "t", "t", "p", "s", ":", "/", "/", "w", "w", "w", ".", "a", ".", "c", "o", "m", "/", "p">>
SourceUrls == {SiteA, SiteWwwA}

HrefSame == <<"h", "t", "t", "p", "s", ":", "/", "/", "a", ".", "c", "o", "m", "/", "x", "/">>
HrefOther == <<"h", "t", "t", "p", "s", ":", "/", "/", "o", "t", "h", "e", "r", ".", "c", "o", "m", "/", "p", "a", "g", "e">>
HrefQuery == <<"h", "t", "t", "p", "s", ":", "/", "/", "o", "t", "h", "e", "r", ".", "c", "o", "m", "/", "?", "u", "=", "h", "t", "t", "p", "s", ":", "/", "/", "a", ".", "c", "o", "m">>
HrefPrefix == <<"h", "t", "t", "p", "s", ":", "/", "/", "a", ".", "c", "o", "m", ".", "e", "v", "i", "l", ".", "c", "o", "m", "/">>
HrefRelative == <<"/", "x">>
Hrefs == {HrefSame, HrefOther, HrefQuery, HrefPrefix, HrefRelative}

Shapes ==
    {[tag |-> "a", text |-> <<"A">>, title |-> Empty, visible |-> TRUE, stale |-> FALSE],
     [tag |-> "a", text |-> <<" ", "B", " ">>, title |-> Empty, visible |-> FALSE, stale |-> FALSE],
     [tag |-> "a", text |-> Empty, title |-> Empty, visible |-> TRUE, stale |-> FALSE],
     [tag |-> "a", text |-> <<"A">>, title |-> Empty, visible |-> TRUE, stale |-> TRUE],
     [tag |-> "link", text |-> Empty, title |-> <<" ">> \o NoText, visible |-> FALSE, stale |-> FALSE]}

Elements ==
    {[tag |-> sh.tag, href |-> h, text |-> sh.text, title |-> sh.title,
      visible |-> sh.visible, stale |-> sh.stale] : sh \in Shapes, h \in Hrefs}

Documents == SeqsUpTo(Elements, MaxLinks)

(***************************************************************************)
(* get_links: the part of both crawlers that turns the elements of a      *)
(* loaded page into records.  The attributes class, id, title and target  *)
(* are copied into the record and read by nothing; they are left out.     *)
(***************************************************************************)
\* parsed.scheme + "://" + parsed.netloc.replace("www.", "")
BaseOf(parsed) ==
    parsed.scheme \o <<":", "/", "/">> \o Remove(parsed.netloc, <<"w", "w", "w", ".">>)

new_source_url(source_url) == BaseOf(urlparse(source_url))

\* the record of one element, in a list, or no record: the element is
\* skipped without an href or a text, and kept when the base URL is a
\* substring of its raw href
RecordOf(source_url, base, href, anchor_text, normalized, is_visible) ==
    IF href = Empty \/ anchor_text = Empty THEN <<>>
    ELSE IF Contains(base, href)
    THEN <<[init_url |-> source_url, anchor_text |-> anchor_text,
            href |-> normalized, is_visible |-> is_visible]>>
    ELSE <<>>

\* link.get_text(strip=True) of an <a>, the title attribute of a <link>
StaticText(link) == IF link.tag = "a" THEN Strip(link.text) ELSE link.title

SimpleHTTPCrawler_record(source_url, base, link) ==
    RecordOf(source_url, base, link.href, StaticText(link),
             normalize_url(urljoin(source_url, link.href)), TRUE)

RECURSIVE SimpleHTTPCrawler_records(_, _, _)
SimpleHTTPCrawler_records(source_url, base, links) ==
    IF links = <<>> THEN <<>>
    ELSE SimpleHTTPCrawler_record(source_url, base, Head(links))
            \o SimpleHTTPCrawler_records(source_url, base, Tail(links))

SimpleHTTPCrawler_links(source_url, links) ==
    SimpleHTTPCrawler_records(source_url, new_source_url(source_url), links)

\* a stale element raises on its first read and is skipped
LinkCrawler_record(source_url, base, link) ==
    IF link.stale THEN <<>>
    ELSE RecordOf(source_url, base, link.href, Strip(link.text),
                  LinkCrawler_normalize_url(urljoin(source_url, link.href)),
                  link.visible)

RECURSIVE LinkCrawler_records(_, _, _)
LinkCrawler_records(source_url, base, links) ==
    IF links = <<>> THEN <<>>
    ELSE LinkCrawler_record(source_url, base, Head(links))
            \o LinkCrawler_records(source_url, base, Tail(links))

LinkCrawler_links(source_url, links) ==
    LinkCrawler_records(source_url, new_source_url(source_url), links)

(***************************************************************************)
(* crawl_multiple_sources and get_links of both crawlers.                  *)
(***************************************************************************)
Store(results, source_url, list) ==
    [u \in DOMAIN results \cup {source_url} |->
        IF u = source_url THEN list ELSE results[u]]

Bump(c, callee) == [c EXCEPT ![callee] = @ + 1]

\* the for loop of crawl_multiple_sources: the next source, or the return
crawl_multiple_sources ==
    /\ pc = "loop"
    /\ IF idx <= Len(source_urls)
       THEN pc' = (IF crawler = "LinkCrawler" THEN "new_page" ELSE "get")
       ELSE pc' = (CASE caller = "main_playwright" -> "aexit_context"
                     [] caller = "main_http" -> "process"
                     [] OTHER -> "returned")
    /\ UNCHANGED <<PLAYWRIGHT_AVAILABLE, probe, url_input, result_limit, caller, crawler,
                   source_urls, idx, all_results, load_failed, playwright, browser,
                   context, open_pages, exc, df, error, aenter_failed, calls, notRun>>

\* SimpleHTTPCrawler.get_links: the GET with raise_for_status, then the loop
\* over the parsed elements; whatever the GET raises is raised again
SimpleHTTPCrawler_get_links ==
    /\ pc = "get"
    /\ \E loaded \in BOOLEAN, doc \in Documents :
          IF loaded
          THEN /\ all_results' = Store(all_results, source_urls[idx],
                                       SimpleHTTPCrawler_links(source_urls[idx], doc))
               /\ idx' = idx + 1
               /\ pc' = "loop"
               /\ UNCHANGED <<load_failed, exc>>
          ELSE /\ doc = <<>>
               /\ load_failed' = load_failed \cup {source_urls[idx]}
               /\ exc' = "Exception"
               /\ pc' = (IF caller = "main_http" THEN "except" ELSE "raised")
               /\ UNCHANGED <<all_results, idx>>
    /\ UNCHANGED <<PLAYWRIGHT_AVAILABLE, probe, url_input, result_limit, caller, crawler,
                   source_urls, playwright, browser, context, open_pages, df, error,
                   aenter_failed, calls, notRun>>

\* LinkCrawler.get_links up to context.new_page(): a failure is caught and
\* the source gets []
LinkCrawler_new_page ==
    /\ pc = "new_page"
    /\ calls' = Bump(calls, "LinkCrawler")
    /\ \E opened \in BOOLEAN :
          IF opened
          THEN /\ open_pages' = open_pages + 1
               /\ pc' = "goto"
               /\ UNCHANGED <<all_results, idx, load_failed>>
          ELSE /\ all_results' = Store(all_results, source_urls[idx], <<>>)
               /\ load_failed' = load_failed \cup {source_urls[idx]}
               /\ idx' = idx + 1
               /\ pc' = "loop"
               /\ UNCHANGED open_pages
    /\ UNCHANGED <<PLAYWRIGHT_AVAILABLE, probe, url_input, result_limit, caller, crawler,
                   source_urls, playwright, browser, context, exc, df, error,
                   aenter_failed, notRun>>

\* page.goto, the settle delay and query_selector_all: a failure is caught
\* and the source gets [], the page is left as it is
LinkCrawler_goto ==
    /\ pc = "goto"
    /\ \E loaded \in BOOLEAN :
          IF loaded
          THEN /\ pc' = "links"
               /\ UNCHANGED <<all_results, idx, load_failed>>
          ELSE /\ all_results' = Store(all_results, source_urls[idx], <<>>)
               /\ load_failed' = load_failed \cup {source_urls[idx]}
               /\ idx' = idx + 1
               /\ pc' = "loop"
    /\ UNCHANGED <<PLAYWRIGHT_AVAILABLE, probe, url_input, result_limit, caller, crawler,
                   source_urls, playwright, browser, context, open_pages, exc, df, error,
                   aenter_failed, calls, notRun>>

\* the loop over the elements, page.close() and the return; a failing
\* page.close() is caught like a failed load
LinkCrawler_get_links ==
    /\ pc = "links"
    /\ \E doc \in Documents, closed \in BOOLEAN :
          IF closed
          THEN /\ all_results' = Store(all_results, source_urls[idx],
                                       LinkCrawler_links(source_urls[idx], doc))
               /\ open_pages' = open_pages - 1
          ELSE /\ doc = <<>>
               /\ all_results' = Store(all_results, source_urls[idx], <<>>)
               /\ UNCHANGED open_pages
    /\ idx' = idx + 1
    /\ pc' = "loop"
    /\ UNCHANGED <<PLAYWRIGHT_AVAILABLE, probe, url_input, result_limit, caller, crawler,
                   source_urls, load_failed, playwright, browser, context, exc, df, error,
                   aenter_failed, calls, notRun>>

(***************************************************************************)
(* SpecCrawl: crawl_multiple_sources of either crawler called on a list of *)
(* distinct source URLs; the LinkCrawler has been entered.                 *)
(***************************************************************************)
SourceLists ==
    {q \in SeqsUpTo(SourceUrls, MaxSources) :
        q # <<>> /\ \A i, j \in DOMAIN q : i # j => q[i] # q[j]}

CrawlInit ==
    /\ crawler \in {"SimpleHTTPCrawler", "LinkCrawler"}
    /\ source_urls \in SourceLists
    /\ caller = "api"
    /\ pc = "loop"
    /\ PLAYWRIGHT_AVAILABLE = (crawler = "LinkCrawler")
    /\ probe = [NoProbe EXCEPT !.done = TRUE, !.import_ok = PLAYWRIGHT_AVAILABLE,
                               !.chromium_listed = PLAYWRIGHT_AVAILABLE]
    /\ playwright = (IF crawler = "LinkCrawler" THEN "started" ELSE "none")
    /\ browser = (IF crawler = "LinkCrawler" THEN "open" ELSE "none")
    /\ context = (IF crawler = "LinkCrawler" THEN "open" ELSE "none")
    /\ url_input = <<>> /\ result_limit = 1
    /\ idx = 1 /\ all_results = <<>> /\ load_failed = {} /\ open_pages = 0
    /\ exc = "none" /\ df = <<>> /\ error = FALSE /\ aenter_failed = FALSE
    /\ calls = NoCalls
    /\ NormIdle
    /\ AggIdle

CrawlNext ==
    \/ crawl_multiple_sources
    \/ SimpleHTTPCrawler_get_links
    \/ LinkCrawler_new_page
    \/ LinkCrawler_goto
    \/ LinkCrawler_get_links

SpecCrawl == CrawlInit /\ [][CrawlNext]_vars


(***************************************************************************)
(* The Streamlit script: the probe at import time, the sidebar, and the    *)
(* handler of the Run Crawler button with main_playwright and main_http.   *)
(***************************************************************************)
\* result.returncode == 0 and "chromium" in result.stdout.lower(), False when
\* the import or the subprocess raised
ProbeResult(p) ==
    p.import_ok /\ ~p.timed_out /\ p.returncode = 0 /\ p.chromium_listed

\* what the probe can meet: the import fails, the subprocess times out, or
\* it ends with a return code and with or without chromium in its output
ProbeOutcomes ==
    {[NoProbe EXCEPT !.done = TRUE]}
    \cup {[NoProbe EXCEPT !.done = TRUE, !.import_ok = TRUE, !.timed_out = TRUE]}
    \cup {[NoProbe EXCEPT !.done = TRUE, !.import_ok = TRUE, !.returncode = rc,
                          !.chromium_listed = listed] :
            rc \in {0, 1}, listed \in BOOLEAN}

Probe ==
    /\ pc = "probe"
    /\ \E p \in ProbeOutcomes :
          /\ probe' = p
          /\ PLAYWRIGHT_AVAILABLE' = ProbeResult(p)
    /\ calls' = Bump(calls, "probe")
    /\ pc' = "sidebar"
    /\ UNCHANGED <<url_input, result_limit, caller, crawler, source_urls, idx,
                   all_results, load_failed, playwright, browser, context, open_pages,
                   exc, df, error, aenter_failed, notRun>>

\* the text input, the number input and the button; the handler runs when
\* the button was pressed and the URL is not empty
Sidebar ==
    /\ pc = "sidebar"
    /\ \E u \in SourceUrls \cup {Empty}, n \in 1..MaxLimit, run_crawl \in BOOLEAN :
          /\ url_input' = u
          /\ result_limit' = n
          /\ pc' = (IF run_crawl /\ u # Empty THEN "select" ELSE "end")
    /\ UNCHANGED <<PLAYWRIGHT_AVAILABLE, probe, caller, crawler, source_urls, idx,
                   all_results, load_failed, playwright, browser, context, open_pages,
                   exc, df, error, aenter_failed, calls, notRun>>

\* a handler that looks only at whether the import succeeded
UseDynamicImportOnly == probe.import_ok

\* if PLAYWRIGHT_AVAILABLE:
UseDynamic == PLAYWRIGHT_AVAILABLE

\* the handler's choice, and the entry of main_playwright (with
\* LinkCrawler.__init__) or of main_http
SelectBackend ==
    /\ pc = "select"
    /\ source_urls' = <<url_input>>
    /\ idx' = 1
    /\ all_results' = <<>>
    /\ IF UseDynamic
       THEN /\ calls' = Bump(Bump(Bump(calls, "select"), "main_playwright"), "LinkCrawler")
            /\ caller' = "main_playwright"
            /\ crawler' = "LinkCrawler"
            /\ pc' = "aenter"
       ELSE /\ calls' = Bump(Bump(calls, "select"), "main_http")
            /\ caller' = "main_http"
            /\ crawler' = "SimpleHTTPCrawler"
            /\ pc' = "loop"
    /\ UNCHANGED <<PLAYWRIGHT_AVAILABLE, probe, url_input, result_limit, load_failed,
                   playwright, browser, context, open_pages, exc, df, error,
                   aenter_failed, notRun>>

\* LinkCrawler.__aenter__ up to async_playwright().start(); an exception
\* leaves the async with statement without __aexit__
LinkCrawler_aenter ==
    /\ pc = "aenter"
    /\ calls' = Bump(calls, "LinkCrawler")
    /\ \E started \in BOOLEAN :
          IF PLAYWRIGHT_AVAILABLE /\ started
          THEN /\ playwright' = "started"
               /\ pc' = "launch"
               /\ UNCHANGED <<exc, aenter_failed>>
          ELSE /\ exc' = "Exception"
               /\ aenter_failed' = TRUE
               /\ pc' = "except"
               /\ UNCHANGED playwright
    /\ UNCHANGED <<PLAYWRIGHT_AVAILABLE, probe, url_input, result_limit, caller, crawler,
                   source_urls, idx, all_results, load_failed, browser, context,
                   open_pages, df, error, notRun>>

\* self.playwright.chromium.launch(...)
LinkCrawler_launch ==
    /\ pc = "launch"
    /\ \E launched \in BOOLEAN :
          IF launched
          THEN /\ browser' = "open"
               /\ pc' = "new_context"
               /\ UNCHANGED <<exc, aenter_failed>>
          ELSE /\ exc' = "Exception"
               /\ aenter_failed' = TRUE
               /\ pc' = "except"
               /\ UNCHANGED browser
    /\ UNCHANGED <<PLAYWRIGHT_AVAILABLE, probe, url_input, result_limit, caller, crawler,
                   source_urls, idx, all_results, load_failed, playwright, context,
                   open_pages, df, error, calls, notRun>>

\* self.browser.new_context(...) and the return of __aenter__
LinkCrawler_new_context ==
    /\ pc = "new_context"
    /\ \E created \in BOOLEAN :
          IF created
          THEN /\ context' = "open"
               /\ pc' = "loop"
               /\ UNCHANGED <<exc, aenter_failed>>
          ELSE /\ exc' = "Exception"
               /\ aenter_failed' = TRUE
               /\ pc' = "except"
               /\ UNCHANGED context
    /\ UNCHANGED <<PLAYWRIGHT_AVAILABLE, probe, url_input, result_limit, caller, crawler,
                   source_urls, idx, all_results, load_failed, playwright, browser,
                   open_pages, df, error, calls, notRun>>

\* LinkCrawler.__aexit__, first statement: closing the context closes its
\* pages; an exception leaves __aexit__ at once
LinkCrawler_aexit_context ==
    /\ pc = "aexit_context"
    /\ calls' = Bump(calls, "LinkCrawler")
    /\ \E closed \in BOOLEAN :
          IF context = "none"
          THEN /\ closed
               /\ pc' = "aexit_browser"
               /\ UNCHANGED <<context, open_pages, exc>>
          ELSE IF closed
          THEN /\ context' = "closed"
               /\ open_pages' = 0
               /\ pc' = "aexit_browser"
               /\ UNCHANGED exc
          ELSE /\ exc' = "Exception"
               /\ pc' = "except"
               /\ UNCHANGED <<context, open_pages>>
    /\ UNCHANGED <<PLAYWRIGHT_AVAILABLE, probe, url_input, result_limit, caller, crawler,
                   source_urls, idx, all_results, load_failed, playwright, browser, df,
                   error, aenter_failed, notRun>>

\* second statement: closing the browser closes what it holds
LinkCrawler_aexit_browser ==
    /\ pc = "aexit_browser"
    /\ \E closed \in BOOLEAN :
          IF browser = "none"
          THEN /\ closed
               /\ pc' = "aexit_playwright"
               /\ UNCHANGED <<browser, context, open_pages, exc>>
          ELSE IF closed
          THEN /\ browser' = "closed"
               /\ context' = (IF context = "open" THEN "closed" ELSE context)
               /\ open_pages' = 0
               /\ pc' = "aexit_playwright"
               /\ UNCHANGED exc
          ELSE /\ exc' = "Exception"
               /\ pc' = "except"
               /\ UNCHANGED <<browser, context, open_pages>>
    /\ UNCHANGED <<PLAYWRIGHT_AVAILABLE, probe, url_input, result_limit, caller, crawler,
                   source_urls, idx, all_results, load_failed, playwright, df, error,
                   aenter_failed, calls, notRun>>

\* third statement, and the return of main_playwright with the results
LinkCrawler_aexit_playwright ==
    /\ pc = "aexit_playwright"
    /\ \E stopped \in BOOLEAN :
          IF stopped
          THEN /\ playwright' = "stopped"
               /\ pc' = "process"
               /\ UNCHANGED exc
          ELSE /\ exc' = "Exception"
               /\ pc' = "except"
               /\ UNCHANGED playwright
    /\ UNCHANGED <<PLAYWRIGHT_AVAILABLE, probe, url_input, result_limit, caller, crawler,
                   source_urls, idx, all_results, load_failed, browser, context,
                   open_pages, df, error, aenter_failed, calls, notRun>>

\* results.get(source_url, [])
ResultsGet(results, source_url) ==
    IF source_url \in DOMAIN results THEN results[source_url] ELSE <<>>

\* df = process_results(results, url_input, result_limit)
HandlerProcess ==
    /\ pc = "process"
    /\ df' \in process_results(ResultsGet(all_results, url_input), result_limit)
    /\ pc' = "end"
    /\ UNCHANGED <<PLAYWRIGHT_AVAILABLE, probe, url_input, result_limit, caller, crawler,
                   source_urls, idx, all_results, load_failed, playwright, browser,
                   context, open_pages, exc, error, aenter_failed, calls, notRun>>

\* except Exception as e: st.error(...); df = pd.DataFrame()
HandlerExcept ==
    /\ pc = "except"
    /\ error' = TRUE
    /\ df' = <<>>
    /\ exc' = "none"
    /\ pc' = "end"
    /\ UNCHANGED <<PLAYWRIGHT_AVAILABLE, probe, url_input, result_limit, caller, crawler,
                   source_urls, idx, all_results, load_failed, playwright, browser,
                   context, open_pages, aenter_failed, calls, notRun>>

(***************************************************************************)
(* SpecRun: one run of the script, from the probe to the end of the       *)
(* handler.  Every run starts from the same state: Streamlit executes the *)
(* script from the top on each interaction.                               *)
(***************************************************************************)
RunInit ==
    /\ PLAYWRIGHT_AVAILABLE = FALSE /\ probe = NoProbe /\ pc = "probe"
    /\ url_input = <<>> /\ result_limit = 1 /\ caller = "none" /\ crawler = "none"
    /\ source_urls = <<>> /\ idx = 1 /\ all_results = <<>> /\ load_failed = {}
    /\ playwright = "none" /\ browser = "none" /\ context = "none" /\ open_pages = 0
    /\ exc = "none" /\ df = <<>> /\ error = FALSE /\ aenter_failed = FALSE
    /\ calls = NoCalls
    /\ NormIdle
    /\ AggIdle

RunNext ==
    \/ Probe
    \/ Sidebar
    \/ SelectBackend
    \/ LinkCrawler_aenter
    \/ LinkCrawler_launch
    \/ LinkCrawler_new_context
    \/ crawl_multiple_sources
    \/ SimpleHTTPCrawler_get_links
    \/ LinkCrawler_new_page
    \/ LinkCrawler_goto
    \/ LinkCrawler_get_links
    \/ LinkCrawler_aexit_context
    \/ LinkCrawler_aexit_browser
    \/ LinkCrawler_aexit_playwright
    \/ HandlerProcess
    \/ HandlerExcept

SpecRun == RunInit /\ [][RunNext]_vars


(***************************************************************************)
(* SpecAggregate: process_results applied to a batch of one source, as    *)
(* get_links of either crawler can return it.                              *)
(***************************************************************************)
AggSource == <<"h", "t", "t", "p", "s", ":", "/", "/", "a", ".", "c", "o", "m">>
AggHrefs == {<<"h", "t", "t", "p", "s", ":", "/", "/", "a", ".", "c", "o", "m">>, <<"h", "t", "t", "p", "s", ":", "/", "/", "a", ".", "c", "o", "m", "/", "a", "b", "o", "u", "t">>}
TextA == <<"A">>
TextB == <<"B">>
\* the static crawler takes a <link>'s title attribute as it stands
StaticTexts == {TextA, TextB, NoText, <<" ">> \o NoText, <<" ">>}
\* the dynamic crawler strips the inner text
DynamicTexts == {TextA, TextB, NoText}

RecordsOf(p) ==
    IF p = "static"
    THEN [init_url : {AggSource}, anchor_text : StaticTexts, href : AggHrefs,
          is_visible : {TRUE}]
    ELSE [init_url : {AggSource}, anchor_text : DynamicTexts, href : AggHrefs,
          is_visible : BOOLEAN]

AggInit ==
    /\ producer \in {"static", "dynamic"}
    /\ batch \in SeqsUpTo(RecordsOf(producer), MaxRecords)
    /\ limit \in 1..MaxLimit
    /\ table = <<>>
    /\ apc = "start"
    /\ NormIdle
    /\ RunIdle

ProcessResults ==
    /\ apc = "start"
    /\ table' \in process_results(batch, limit)
    /\ apc' = "done"
    /\ UNCHANGED <<batch, producer, limit, notAgg>>

AggNext == ProcessResults

SpecAggregate == AggInit /\ [][AggNext]_vars

\* C7: the output of process_results has at most limit rows and is ordered
\* by count descending, rows of equal count by href ascending.
C7_SortedWithinLimit ==
    apc = "done" =>
        /\ Len(table) <= limit
        /\ \A i, j \in DOMAIN table :
              i < j => \/ table[i].count > table[j].count
                       \/ /\ table[i].count = table[j].count
                          /\ StrLeq(table[i].href, table[j].href)

\* C8: invisible records are dropped before grouping: each output row counts
\* only the visible records of its key, so a key whose records are all
\* invisible has no row.
C8_InvisibleDropped ==
    apc = "done" =>
        \A n \in DOMAIN table :
            table[n].count =
                Cardinality({i \in DOMAIN batch :
                    /\ batch[i].is_visible
                    /\ KeyOf(batch[i]) = KeyOf(table[n])})

\* C9: no output row has an anchor text that, trimmed, is empty or is the
\* placeholder "[No text]".
C9_NoPlaceholderRows ==
    apc = "done" =>
        \A n \in DOMAIN table :
            /\ Strip(table[n].anchor_text) # Empty
            /\ Strip(table[n].anchor_text) # NoText

\* the host of a URL: its network location without user information or
\* port, and without a leading "www."
HostName(netloc) ==
    LET at == LastAt(netloc)
        host == Drop(netloc, at + 1)
    IN  SplitFirst(host, ":")

StripWww(host) ==
    IF StartsWith(host, <<"w", "w", "w", ".">>) THEN Drop(host, 5) ELSE host

SiteOf(u) == StripWww(HostName(urlparse(u).netloc))

\* C3: cross-site hrefs never appear in extracted records: the host of every
\* record's href, a leading "www." stripped, is the host of its source URL,
\* a leading "www." stripped; for both crawlers.
C3_NoCrossSiteRecords ==
    \A u \in DOMAIN all_results :
        \A i \in DOMAIN all_results[u] :
            SiteOf(all_results[u][i].href) = SiteOf(u)

\* C4: a page load failure on one source never raises out of
\* crawl_multiple_sources: it returns with an entry for every source URL,
\* the failed ones mapped to an empty list; for both crawlers.
C4_LoadFailureAbsorbed ==
    /\ pc # "raised"
    /\ pc = "returned" =>
          /\ \A i \in DOMAIN source_urls : source_urls[i] \in DOMAIN all_results
          /\ \A u \in load_failed : all_results[u] = <<>>

\* C5: when the probe succeeded and LinkCrawler.__aenter__ then raises, the
\* run falls back to the static crawler once: main_http is invoked exactly
\* once, the probe is not repeated, and the run ends with the static result,
\* not with an error.
C5_FallsBackToStatic ==
    (pc = "end" /\ ProbeResult(probe) /\ aenter_failed) =>
        /\ calls.main_http = 1
        /\ calls.probe = 1
        /\ ~error

\* C6: when the probe reports the dynamic backend unavailable (the import
\* failed, the subprocess failed or timed out, or chromium is not listed),
\* the script run never invokes main_playwright or a LinkCrawler method; it
\* chooses at most once, and every choice is main_http.
C6_StaticOnlyWhenUnavailable ==
    (probe.done /\ ~ProbeResult(probe)) =>
        /\ calls.main_playwright = 0
        /\ calls.LinkCrawler = 0
        /\ crawler # "LinkCrawler"
        /\ calls.select <= 1
        /\ calls.main_http = calls.select

\* a run whose import succeeded but whose probe found no chromium, ended
\* with rows delivered by main_http
C6_Witness ==
    /\ probe.done /\ probe.import_ok /\ ~ProbeResult(probe)
    /\ pc = "end"
    /\ calls.main_http = 1
    /\ df # <<>>

\* C10: the browser session is released on every exit path of a dynamic
\* run: once main_playwright has ended, the driver, the browser and the
\* context that were started are closed; and whenever get_links has
\* returned, the page it opened is closed.
C10_SessionReleased ==
    /\ (caller = "main_playwright" /\ pc \in {"process", "except", "end"}) =>
          /\ playwright # "started"
          /\ browser # "open"
          /\ context # "open"
    /\ (crawler = "LinkCrawler" /\ pc = "loop") => open_pages = 0

=============================================================================
